---------------------------- MODULE Spec2Model ----------------------------
(***************************************************************************)
(* Model of dipy/segment/mask.py: the median/Otsu brain-mask pipeline      *)
(* (medotsu) and its helpers multi_median, otsu, applymask,                *)
(* binary_threshold, maxvalue, bounding_box and crop.                      *)
(*                                                                         *)
(* An ndarray is a record [dtype, shape, data]: shape is the tuple of axis *)
(* lengths and data maps every 0-based index tuple to its sample.  Every   *)
(* function of the module is one action: the arguments are drawn by Init,  *)
(* the action runs the whole call and leaves the caller's buffer in mem    *)
(* and the outcome (return value or exception) in ret.                     *)
(***************************************************************************)
EXTENDS Integers, Sequences, FiniteSets, TLC

VARIABLES
    pc,     \* "call": the call is about to run; "done": it has finished
    fn,     \* the function called
    arg,    \* the arguments as passed (arrays with their content at call time)
    mem,    \* the caller's array object (input_volume / vol), current content
    ret,    \* the outcome: [status |-> "ok" | an exception, ...return values]
    loc     \* the local variables of the finished call that are not returned

vars == <<pc, fn, arg, mem, ret, loc>>

---------------------------------------------------------------------------
(* Bounds of the model *)

\* largest number of samples of an array
MaxCells == 4
\* samples are drawn from 0..MaxV
MaxV == 2
\* median_radius is drawn from 0..MaxRadius
MaxRadius == 1
\* numpass is drawn from 0..MaxPass
MaxPass == 1

\* otsu's default nbins
NBins == 256

---------------------------------------------------------------------------
(* ndarrays *)

Min2(a, b) == IF a < b THEN a ELSE b
Max2(a, b) == IF a > b THEN a ELSE b

\* an array's buffer holds its samples: f with every sample computed once
\* (comparing a function makes TLC tabulate it)
Buffer(f) == IF f = f THEN f ELSE f

RECURSIVE Prod(_)
Prod(shape) == IF shape = <<>> THEN 1 ELSE Head(shape) * Prod(Tail(shape))

\* the index tuples of an array of the given shape
Indices(shape) ==
    {ix \in [1..Len(shape) -> 0..MaxCells] : \A d \in 1..Len(shape) : ix[d] < shape[d]}

\* position of an index tuple in C (row-major) order, the order of np.where
RECURSIVE Ravel(_, _)
Ravel(ix, shape) ==
    IF ix = <<>> THEN 0
    ELSE Head(ix) * Prod(Tail(shape)) + Ravel(Tail(ix), Tail(shape))

\* IEEE NaN of the floating dtypes, an unordered value: every comparison with
\* it except # is false.  Encoded as a number no sample or threshold takes.
NaN == -1000000

IsNaN(x) == x = NaN
\* x == 0 and x != 0 as numpy evaluates them
IsZero(x) == x = 0
NonZero(x) == x # 0

DTypes == {"uint8", "int16", "float16"}

\* dtype.kind
Kind(dtype) ==
    CASE dtype = "uint8" -> "u"
      [] dtype = "int16" -> "i"
      [] OTHER -> "f"

\* np.iinfo(t).max / np.finfo(t).max
IInfoMax(dtype) == IF dtype = "uint8" THEN 255 ELSE 32767
FInfoMax(dtype) == 65504

maxvalue(datatype) ==
    IF Kind(datatype) \in {"i", "u"} THEN IInfoMax(datatype) ELSE FInfoMax(datatype)

\* shapes with ndim axes, every axis non-empty, at most MaxCells samples
Shapes(ndim) == {s \in [1..ndim -> 1..MaxCells] : Prod(s) <= MaxCells}

\* all arrays of a shape and dtype with samples in vals
ArraysOf(dtype, shape, vals) ==
    {[dtype |-> dtype, shape |-> shape, data |-> f] : f \in [Indices(shape) -> vals]}

\* the samples a volume of dtype t may hold: 0..MaxV, and NaN if t is floating
\* and nan is asked for
Samples(t, nan) == (0..MaxV) \cup (IF nan /\ Kind(t) = "f" THEN {NaN} ELSE {})

\* one array per shape, dtype and k with the samples k, k+1, ... in C order,
\* wrapped into 0..MaxV
Ramp(dtype, shape, k) ==
    [dtype |-> dtype, shape |-> shape,
     data |-> Buffer([ix \in Indices(shape) |-> (Ravel(ix, shape) + k) % (MaxV + 1)])]

\* binary masks as binary_threshold leaves them: 0 or the dtype's maximum
MasksOf(dtype, shape) == ArraysOf(dtype, shape, {0, maxvalue(dtype)})

---------------------------------------------------------------------------
(* multi_median *)

\* scipy.ndimage mode='reflect' (d c b a | a b c d | d c b a)
Reflect(i, n) ==
    LET m == i % (2 * n) IN IF m < n THEN m ELSE 2 * n - 1 - m

\* how many of the 2r+1 window positions around i fall, reflected, on j
AxisHits(i, j, radius, n) ==
    Cardinality({o \in (0 - radius)..radius : Reflect(i + o, n) = j})

\* how many of the (2r+1)^ndim window positions around ix hold sample jx
RECURSIVE WindowHits(_, _, _, _, _)
WindowHits(ix, jx, radius, shape, d) ==
    IF d > Len(shape) THEN 1
    ELSE AxisHits(ix[d], jx[d], radius, shape[d])
            * WindowHits(ix, jx, radius, shape, d + 1)

\* sum of f[k] over the elements of S
RECURSIVE SumOver(_, _)
SumOver(f, S) ==
    IF S = {} THEN 0
    ELSE LET k == CHOOSE e \in S : TRUE IN f[k] + SumOver(f, S \ {k})

\* medarr, the window of 2r+1 positions on every axis, as the filter uses
\* it: the rank size^ndim // 2 of the median, and for every ix how often the
\* window around ix holds each sample jx (borders reflected)
Medarr(shape, median_radius) ==
    [rank |-> ((2 * median_radius + 1) ^ Len(shape)) \div 2,
     hits |-> Buffer([ix \in Indices(shape) |->
                Buffer([jx \in Indices(shape) |->
                    WindowHits(ix, jx, median_radius, shape, 1)])])]

\* the element of rank medarr.rank of the sorted window of ix
WindowMedian(data, medarr, ix) ==
    LET dom == DOMAIN data
        below(m) == SumOver(medarr.hits[ix], {jx \in dom : data[jx] < m})
        upto(m) == SumOver(medarr.hits[ix], {jx \in dom : data[jx] <= m})
    IN  CHOOSE m \in {data[jx] : jx \in dom} :
            below(m) <= medarr.rank /\ upto(m) > medarr.rank

\* one pass that reads the buffer it writes: the samples are replaced one by
\* one in C order, each window seeing the samples already replaced
RECURSIVE DirectPass(_, _, _, _)
DirectPass(data, shape, medarr, k) ==
    IF k = Prod(shape) THEN data
    ELSE LET ix == CHOOSE e \in DOMAIN data : Ravel(e, shape) = k
         IN  DirectPass([data EXCEPT ![ix] = WindowMedian(data, medarr, ix)],
                        shape, medarr, k + 1)

\* median_filter(input, medarr, output=input).  The output is the input
\* array itself.  A scipy that filters into a temporary when the two share
\* memory gives the median filter of the input (direct = FALSE); one that
\* writes straight to the output gives DirectPass (direct = TRUE).
median_filter(input, medarr, direct) ==
    IF direct
    THEN [input EXCEPT !.data = DirectPass(input.data, input.shape, medarr, 0)]
    ELSE [input EXCEPT !.data =
            Buffer([ix \in DOMAIN input.data |-> WindowMedian(input.data, medarr, ix)])]

\* for i in range(0, numpass): median_filter(input, medarr, output=input)
RECURSIVE Passes(_, _, _, _)
Passes(input, medarr, numpass, direct) ==
    IF numpass = 0 THEN input
    ELSE Passes(median_filter(input, medarr, direct), medarr, numpass - 1, direct)

\* numpass sequential passes, each written over the input buffer
multi_median(input, median_radius, numpass, direct) ==
    Passes(input, Medarr(input.shape, median_radius), numpass, direct)

---------------------------------------------------------------------------
(* otsu *)

\* thresholds are rationals with denominator TScale
TScale == 2 * NBins

\* np.histogram(image, nbins): nbins equal-width bins over [min, max], or
\* over [min - 0.5, max + 0.5] when min = max.  Returned are the counts and
\* the nbins + 1 bin EDGES.  lo2, hi2 are twice the range ends; edge k is
\* Edge(k) / TScale.
HistRange(image) ==
    LET vals == {image.data[ix] : ix \in DOMAIN image.data}
        mn == CHOOSE v \in vals : \A w \in vals : v <= w
        mx == CHOOSE v \in vals : \A w \in vals : v >= w
    IN  IF mn = mx THEN [lo2 |-> 2 * mn - 1, hi2 |-> 2 * mx + 1]
        ELSE [lo2 |-> 2 * mn, hi2 |-> 2 * mx]

Edge(r, nbins, k) == (TScale \div (2 * nbins)) * (nbins * r.lo2 + k * (r.hi2 - r.lo2))

\* the bin of a sample; the last bin is closed on the right
BinOf(r, nbins, x) ==
    Min2(nbins - 1, ((2 * x - r.lo2) * nbins) \div (r.hi2 - r.lo2))

\* hist[k] for the occupied bins k: the samples counted per bin
Hist(image, r, nbins) ==
    LET bins == {BinOf(r, nbins, image.data[ix]) : ix \in DOMAIN image.data}
    IN  [k \in bins |->
            Cardinality({ix \in DOMAIN image.data : BinOf(r, nbins, image.data[ix]) = k})]

\* variance12[i] = weight1[i] * weight2[i+1] * (mean1[i] - mean2[i+1])**2 as
\* the fraction num / den, or NaN when a class weight is 0 (0 / 0).  The
\* cumulative sums run over the occupied bins; bin k weighs in with its
\* RIGHT edge bin_centers[1:][k].
Variance12(hist, r, nbins, i) ==
    LET lower == {k \in DOMAIN hist : k <= i}
        upper == {k \in DOMAIN hist : k >= i + 1}
        moment == [k \in DOMAIN hist |-> hist[k] * Edge(r, nbins, k + 1)]
        weight1 == SumOver(hist, lower)
        weight2 == SumOver(hist, upper)
        n == SumOver(moment, lower) * weight2 - SumOver(moment, upper) * weight1
    IN  [nan |-> weight1 = 0 \/ weight2 = 0, num |-> n * n, den |-> weight1 * weight2]

\* a > b for two entries of variance12 that are not NaN
VarGt(a, b) == a.num * b.den > b.num * a.den

\* np.argmax over the indices of S: the first NaN if there is one, else the
\* first maximum
ArgMax(v, S) ==
    IF \E i \in S : v[i].nan
    THEN CHOOSE i \in S : v[i].nan /\ \A j \in S : j < i => ~v[j].nan
    ELSE CHOOSE i \in S :
            /\ \A j \in S : ~VarGt(v[j], v[i])
            /\ \A j \in S : j < i => VarGt(v[i], v[j])

\* threshold = bin_centers[:-1][idx]: the LEFT EDGE of bin idx, times TScale.
\* variance12 has the nbins - 1 entries 0..nbins-2 and changes value only at
\* an occupied bin, so its first NaN or first maximum is entry 0 or the
\* entry of an occupied bin: np.argmax is taken over these.
otsu(image, nbins) ==
    LET r == HistRange(image)
        hist == Buffer(Hist(image, r, nbins))
        steps == {0} \cup {k \in DOMAIN hist : k <= nbins - 2}
        variance12 == Buffer([i \in steps |-> Variance12(hist, r, nbins, i)])
    IN  Edge(r, nbins, ArgMax(variance12, steps))

---------------------------------------------------------------------------
(* binary_threshold *)

\* thresh is given times TScale (NaN as itself)
GtThresh(x, thresh) == ~IsNaN(x) /\ ~IsNaN(thresh) /\ x * TScale > thresh
LeThresh(x, thresh) == ~IsNaN(x) /\ ~IsNaN(thresh) /\ x * TScale <= thresh

\* x[np.where(x > thresh)] = maxval, then x[np.where(x <= thresh)] = 0, on
\* every chunk of the iteration; each sample is in exactly one chunk
binary_threshold(vol, thresh) ==
    LET maxval == maxvalue(vol.dtype)
        step1 == [ix \in DOMAIN vol.data |->
                    IF GtThresh(vol.data[ix], thresh) THEN maxval ELSE vol.data[ix]]
        step2 == [ix \in DOMAIN vol.data |->
                    IF LeThresh(step1[ix], thresh) THEN 0 ELSE step1[ix]]
    IN  [vol EXCEPT !.data = Buffer(step2)]


---------------------------------------------------------------------------
(* bounding_box *)

\* np.array(np.where(vol != 0)).T: the nonzero index tuples in C order
RECURSIVE InCOrder(_, _)
InCOrder(S, shape) ==
    IF S = {} THEN <<>>
    ELSE LET p == CHOOSE e \in S : \A f \in S : Ravel(e, shape) <= Ravel(f, shape)
         IN  <<p>> \o InCOrder(S \ {p}, shape)

Pts(vol) ==
    InCOrder({ix \in DOMAIN vol.data : NonZero(vol.data[ix])}, vol.shape)

\* BoxLoop with the test pt[curdim] < mins[curdim] lost: mins stays pts[0]
RECURSIVE BoxLoop_MinsNotUpdated(_, _, _)
BoxLoop_MinsNotUpdated(pts, mins, maxs) ==
    IF pts = <<>> THEN [mins |-> mins, maxs |-> maxs, warned |-> FALSE]
    ELSE LET pt == Head(pts)
         IN  BoxLoop_MinsNotUpdated(Tail(pts), mins,
                     [d \in DOMAIN maxs |-> IF pt[d] > maxs[d] THEN pt[d] ELSE maxs[d]])

\* the loop over pts keeping the running per-axis extremes
RECURSIVE BoxLoop(_, _, _)
BoxLoop(pts, mins, maxs) ==
    IF pts = <<>> THEN [mins |-> mins, maxs |-> maxs, warned |-> FALSE]
    ELSE LET pt == Head(pts)
         IN  BoxLoop(Tail(pts),
                     [d \in DOMAIN mins |-> IF pt[d] < mins[d] THEN pt[d] ELSE mins[d]],
                     [d \in DOMAIN maxs |-> IF pt[d] > maxs[d] THEN pt[d] ELSE maxs[d]])

bounding_box(vol) ==
    LET pts == Pts(vol)
    IN  IF Len(pts) = 0
        THEN [mins |-> <<0, 0, 0>>, maxs |-> <<0, 0, 0>>, warned |-> TRUE]
        ELSE BoxLoop(pts, pts[1], pts[1])

---------------------------------------------------------------------------
(* crop *)

\* a slice bound as Python normalises it for an axis of length n: a negative
\* bound counts from the end, and the result is clamped to 0..n
SliceBound(i, n) == IF i < 0 THEN Max2(i + n, 0) ELSE Min2(i, n)

\* CropStart with the slices starting at 0 instead of mins[d]
CropStart_FromZero(vol, mins, d) == 0

\* first index of the slice mins[d]:maxs[d]+1 on axis d (axes past the third
\* are kept whole)
CropStart(vol, mins, d) == IF d <= 3 THEN SliceBound(mins[d], vol.shape[d]) ELSE 0

\* CropLen with the slice mins[d]:maxs[d], the + 1 forgotten
CropLen_MaxExclusive(vol, mins, maxs, d) ==
    IF d <= 3
    THEN Max2(0, SliceBound(maxs[d], vol.shape[d]) - SliceBound(mins[d], vol.shape[d]))
    ELSE vol.shape[d]

\* length of the slice mins[d]:maxs[d]+1 on axis d
CropLen(vol, mins, maxs, d) ==
    IF d <= 3
    THEN Max2(0, SliceBound(maxs[d] + 1, vol.shape[d]) - SliceBound(mins[d], vol.shape[d]))
    ELSE vol.shape[d]

\* vol[mins[0]:maxs[0]+1, mins[1]:maxs[1]+1, mins[2]:maxs[2]+1]: basic slicing
\* never raises on an array of 3 or more axes; it yields a view of vol
crop(vol, mins, maxs) ==
    LET shape == [d \in 1..Len(vol.shape) |-> CropLen(vol, mins, maxs, d)]
    IN  [dtype |-> vol.dtype,
         shape |-> shape,
         data  |-> Buffer([ix \in Indices(shape) |->
                      vol.data[[d \in 1..Len(shape) |-> ix[d] + CropStart(vol, mins, d)]]])]

\* the base array after its view crop(base, mins, maxs) has been given the
\* content of view (a numpy slice shares the memory of its base)
WriteThrough(base, mins, view) ==
    [base EXCEPT !.data =
        Buffer([ix \in DOMAIN base.data |->
            LET vx == [d \in 1..Len(base.shape) |-> ix[d] - CropStart(base, mins, d)]
            IN  IF vx \in DOMAIN view.data THEN view.data[vx] ELSE base.data[ix]])]

---------------------------------------------------------------------------
(* applymask *)

Prefix(ix, k) == [d \in 1..k |-> ix[d]]

\* ApplymaskBranch with the elif testing for a smaller mask, which runs the
\* loop over range(0, lastdimlen), a name never assigned
ApplymaskBranch_ElifSmaller(vol, mask) ==
    IF Len(mask.shape) > Len(vol.shape) THEN "raise"
    ELSE IF Len(mask.shape) < Len(vol.shape) THEN "recurse"
    ELSE "index"

\* ApplymaskBranch without the dimensionality check
ApplymaskBranch_NoCheck(vol, mask) == "index"

\* the branch applymask takes; the elif repeats the condition of the if
ApplymaskBranch(vol, mask) ==
    IF Len(mask.shape) > Len(vol.shape) THEN "raise"
    ELSE IF Len(mask.shape) > Len(vol.shape) THEN "recurse"
    ELSE "index"

\* Outliers taken where mask != 0
Outliers_WhereNonZero(mask) == {ix \in DOMAIN mask.data : NonZero(mask.data[ix])}

\* np.where(mask == 0): the index tuples of the zero samples of mask
Outliers(mask) == {ix \in DOMAIN mask.data : IsZero(mask.data[ix])}

\* vol[tuple(np.where(mask == 0))] = 0: the k = mask.ndim index arrays address
\* the first k axes of vol and select every position of the remaining ones;
\* more index arrays than vol has axes, or an index past an axis, raise
applymask(vol, mask) ==
    LET k == Len(mask.shape)
        outliers == Outliers(mask)
        branch == ApplymaskBranch(vol, mask)
    IN  CASE branch = "raise" -> [status |-> "Exception", vol |-> vol]
          [] branch = "recurse" -> [status |-> "NameError", vol |-> vol]
          [] OTHER ->
                IF k > Len(vol.shape)
                    \/ \E o \in outliers : \E d \in 1..k : o[d] >= vol.shape[d]
                THEN [status |-> "IndexError", vol |-> vol]
                ELSE [status |-> "ok",
                      vol |-> [vol EXCEPT !.data =
                                 Buffer([ix \in DOMAIN vol.data |->
                                    IF Prefix(ix, k) \in outliers THEN 0
                                    ELSE vol.data[ix]])]]

---------------------------------------------------------------------------
(* The calls *)

NoRet == [status |-> "none"]

\* medotsu on every 3D int16 volume with the intensities 0, 1 and MaxV
InitMedotsu ==
    /\ pc = "call"
    /\ fn = "medotsu"
    /\ \E s \in Shapes(3) :
       \E v \in ArraysOf("int16", s, {0, 1, MaxV}) :
       \E r \in 0..MaxRadius, n \in 0..MaxPass, a \in BOOLEAN :
          arg = [input_volume |-> v, median_radius |-> r, numpass |-> n, autocrop |-> a]
    /\ mem = arg.input_volume
    /\ ret = NoRet
    /\ loc = <<>>

\* The whole call, statement by statement.  direct says how the installed
\* median_filter treats an output that is its input (a choice only if the
\* filter runs).  mem is the array
\* object the caller passed, after the call; ret holds the two returned
\* arrays; loc keeps the threshold, the uncropped mask and the box.
Medotsu ==
    /\ pc = "call"
    /\ fn = "medotsu"
    /\ \E direct \in (IF arg.numpass = 0 THEN {FALSE} ELSE BOOLEAN) :
       \* vol = input_volume.copy(); mask = multi_median(vol, ...)
       \E smoothed \in {multi_median(arg.input_volume, arg.median_radius,
                                     arg.numpass, direct)} :
       \E thresh \in {otsu(smoothed, NBins)} :
       \E mask0 \in {binary_threshold(smoothed, thresh)} :
          IF arg.autocrop
          THEN \E box \in {bounding_box(mask0)} :
               \E mask \in {crop(mask0, box.mins, box.maxs)} :
               \* input_volume is rebound to a view of the caller's array
               \E view \in {crop(arg.input_volume, box.mins, box.maxs)} :
               \E applied \in {applymask(view, mask)} :
                  /\ mem' = WriteThrough(arg.input_volume, box.mins, applied.vol)
                  /\ ret' = [status |-> applied.status, volume |-> applied.vol,
                             mask |-> mask]
                  /\ loc' = [thresh |-> thresh, mask0 |-> mask0,
                             box |-> <<box.mins, box.maxs>>]
          ELSE \E applied \in {applymask(arg.input_volume, mask0)} :
                  /\ mem' = applied.vol
                  /\ ret' = [status |-> applied.status, volume |-> applied.vol,
                             mask |-> mask0]
                  /\ loc' = [thresh |-> thresh, mask0 |-> mask0, box |-> <<>>]
    /\ pc' = "done"
    /\ UNCHANGED <<fn, arg>>

SpecMedotsu == InitMedotsu /\ [][Medotsu]_vars

\* otsu(image) with the default nbins on every finite 3D volume
InitOtsu ==
    /\ pc = "call"
    /\ fn = "otsu"
    /\ \E t \in DTypes, s \in Shapes(3) :
       \E v \in ArraysOf(t, s, Samples(t, FALSE)) :
          arg = [image |-> v]
    /\ mem = arg.image
    /\ ret = NoRet
    /\ loc = <<>>

Otsu ==
    /\ pc = "call"
    /\ fn = "otsu"
    /\ ret' = [status |-> "ok", threshold |-> otsu(arg.image, NBins)]
    /\ pc' = "done"
    /\ UNCHANGED <<fn, arg, mem, loc>>

SpecOtsu == InitOtsu /\ [][Otsu]_vars

\* binary_threshold(vol, thresh); thresh is any multiple of 1/2 from -1/2 to
\* MaxV + 1/2, times TScale; floating volumes may hold NaN
Thresholds == {k * NBins : k \in (0 - 1)..(2 * MaxV + 1)}

InitThreshold ==
    /\ pc = "call"
    /\ fn = "binary_threshold"
    /\ \E t \in DTypes, s \in Shapes(3) :
       \E v \in ArraysOf(t, s, Samples(t, TRUE)) :
       \E th \in Thresholds :
          arg = [vol |-> v, thresh |-> th]
    /\ mem = arg.vol
    /\ ret = NoRet
    /\ loc = <<>>

BinaryThreshold ==
    /\ pc = "call"
    /\ fn = "binary_threshold"
    /\ mem' = binary_threshold(arg.vol, arg.thresh)
    /\ ret' = [status |-> "ok"]
    /\ pc' = "done"
    /\ UNCHANGED <<fn, arg, loc>>

SpecThreshold == InitThreshold /\ [][BinaryThreshold]_vars

\* applymask(vol, mask): vol has 2 to 4 axes; the mask has the shape of vol,
\* or of vol without its last axes, or of vol with more axes appended
MaskShapesFor(shape) ==
    {Prefix(shape, k) : k \in 1..Len(shape)}
        \cup {m \in UNION {Shapes(n) : n \in (Len(shape) + 1)..4} :
                Prefix(m, Len(shape)) = shape}

InitApplymask ==
    /\ pc = "call"
    /\ fn = "applymask"
    /\ \E t \in DTypes, n \in 2..4 :
       \E s \in Shapes(n) :
       \E ms \in MaskShapesFor(s), k \in 0..MaxV :
       \E m \in MasksOf(t, ms) :
          arg = [vol |-> Ramp(t, s, k), mask |-> m]
    /\ mem = arg.vol
    /\ ret = NoRet
    /\ loc = <<>>

Applymask ==
    /\ pc = "call"
    /\ fn = "applymask"
    /\ \E r \in {applymask(arg.vol, arg.mask)} :
          /\ mem' = r.vol
          /\ ret' = [status |-> r.status]
    /\ loc' = [branch |-> ApplymaskBranch(arg.vol, arg.mask)]
    /\ pc' = "done"
    /\ UNCHANGED <<fn, arg>>

SpecApplymask == InitApplymask /\ [][Applymask]_vars

\* bounding_box(vol) on arrays of 2 to 4 axes
InitBoundingBox ==
    /\ pc = "call"
    /\ fn = "bounding_box"
    /\ \E t \in DTypes, n \in 2..4 :
       \E s \in Shapes(n) :
       \E v \in ArraysOf(t, s, Samples(t, FALSE)) :
          arg = [vol |-> v]
    /\ mem = arg.vol
    /\ ret = NoRet
    /\ loc = <<>>

BoundingBox ==
    /\ pc = "call"
    /\ fn = "bounding_box"
    /\ \E b \in {bounding_box(arg.vol)} :
          /\ ret' = [status |-> "ok", mins |-> b.mins, maxs |-> b.maxs]
          /\ loc' = [warned |-> b.warned]
    /\ pc' = "done"
    /\ UNCHANGED <<fn, arg, mem>>

SpecBoundingBox == InitBoundingBox /\ [][BoundingBox]_vars

\* crop(vol, mins, maxs) on 3D arrays: a mask with the box bounding_box gives
\* for it, or an array with any box whose bounds lie between -1 and the axis
\* length
Boxes(shape) ==
    {b \in [1..3 -> (0 - 1)..MaxCells] : \A d \in 1..3 : b[d] <= shape[d]}

InitCrop ==
    /\ pc = "call"
    /\ fn = "crop"
    /\ \E s \in Shapes(3) :
          \/ \E m \in MasksOf("uint8", s) :
             \E b \in {bounding_box(m)} :
                arg = [vol |-> m, mins |-> b.mins, maxs |-> b.maxs]
          \/ \E lo \in Boxes(s), hi \in Boxes(s) :
                arg = [vol |-> Ramp("uint8", s, 1), mins |-> lo, maxs |-> hi]
    /\ mem = arg.vol
    /\ ret = NoRet
    /\ loc = <<>>

Crop ==
    /\ pc = "call"
    /\ fn = "crop"
    /\ ret' = [status |-> "ok", vol |-> crop(arg.vol, arg.mins, arg.maxs)]
    /\ pc' = "done"
    /\ UNCHANGED <<fn, arg, mem, loc>>

SpecCrop == InitCrop /\ [][Crop]_vars

\* every call of the module
Init ==
    \/ InitMedotsu
    \/ InitOtsu
    \/ InitThreshold
    \/ InitApplymask
    \/ InitBoundingBox
    \/ InitCrop

Next ==
    \/ Medotsu
    \/ Otsu
    \/ BinaryThreshold
    \/ Applymask
    \/ BoundingBox
    \/ Crop

Spec == Init /\ [][Next]_vars

---------------------------------------------------------------------------
(* Properties *)

Done(f) == pc = "done" /\ fn = f

Zeros(n) == [d \in 1..n |-> 0]
Shift(ix, off) == [d \in DOMAIN ix |-> ix[d] + off[d]]
Unshift(ix, off) == [d \in DOMAIN ix |-> ix[d] - off[d]]

\* the index tuples of the nonzero samples of a
NonZeroAt(a) == {ix \in DOMAIN a.data : NonZero(a.data[ix])}

\* smallest and largest index along axis d of a nonzero sample of a
AxisMin(a, d) ==
    CHOOSE m \in {ix[d] : ix \in NonZeroAt(a)} : \A ix \in NonZeroAt(a) : m <= ix[d]
AxisMax(a, d) ==
    CHOOSE m \in {ix[d] : ix \in NonZeroAt(a)} : \A ix \in NonZeroAt(a) : m >= ix[d]

\* C1: a call of medotsu with autocrop leaves every element of the array the
\* caller passed unchanged.
C1_CallerArrayUnchanged ==
    (Done("medotsu") /\ arg.autocrop) => mem = arg.input_volume

\* C2: medotsu returns a volume and a mask of the same shape; the volume is 0
\* where the mask is 0 and holds the original input sample where the mask is
\* not 0; with autocrop both cover exactly the bounding box of the uncropped
\* mask, without it the whole input.
C2_MaskedVolumeAndMask ==
    Done("medotsu") =>
        LET mins == IF arg.autocrop
                    THEN [d \in 1..3 |-> AxisMin(loc.mask0, d)] ELSE Zeros(3)
            maxs == IF arg.autocrop
                    THEN [d \in 1..3 |-> AxisMax(loc.mask0, d)]
                    ELSE [d \in 1..3 |-> arg.input_volume.shape[d] - 1]
        IN  /\ ret.status = "ok"
            /\ NonZeroAt(loc.mask0) # {}
            /\ ret.volume.shape = ret.mask.shape
            /\ DOMAIN ret.volume.data = DOMAIN ret.mask.data
            /\ \A d \in 1..3 : ret.mask.shape[d] = maxs[d] - mins[d] + 1
            /\ \A ix \in DOMAIN ret.mask.data :
                    /\ ret.mask.data[ix] = loc.mask0.data[Shift(ix, mins)]
                    /\ IsZero(ret.mask.data[ix]) => ret.volume.data[ix] = 0
                    /\ NonZero(ret.mask.data[ix]) =>
                          ret.volume.data[ix] = arg.input_volume.data[Shift(ix, mins)]

\* C2 witness: an autocropped call whose box is smaller than the input and
\* holds a masked-out voxel that was not 0 in the input.
C2_Witness ==
    /\ Done("medotsu")
    /\ arg.autocrop
    /\ ret.mask.shape # arg.input_volume.shape
    /\ \E ix \in DOMAIN ret.mask.data :
          /\ IsZero(ret.mask.data[ix])
          /\ NonZero(arg.input_volume.data[Shift(ix, loc.box[1])])
    /\ \E ix \in DOMAIN ret.mask.data : NonZero(ret.volume.data[ix])

\* C3: with a mask of the shape of vol, after applymask(vol, mask) every
\* sample of vol where mask == 0 is 0 and every other sample is unchanged.
C3_EqualShapeMasking ==
    (Done("applymask") /\ arg.mask.shape = arg.vol.shape) =>
        /\ ret.status = "ok"
        /\ mem.shape = arg.vol.shape
        /\ \A ix \in DOMAIN arg.vol.data :
              /\ IsZero(arg.mask.data[ix]) => mem.data[ix] = 0
              /\ NonZero(arg.mask.data[ix]) => mem.data[ix] = arg.vol.data[ix]

\* C3 witness: an equal-shape call that zeroed a nonzero sample and kept
\* another one.
C3_Witness ==
    /\ Done("applymask")
    /\ arg.mask.shape = arg.vol.shape
    /\ \E ix \in DOMAIN arg.vol.data :
          IsZero(arg.mask.data[ix]) /\ NonZero(arg.vol.data[ix]) /\ mem.data[ix] = 0
    /\ \E ix \in DOMAIN arg.vol.data :
          NonZero(arg.mask.data[ix]) /\ NonZero(mem.data[ix])

\* C4: with a mask of fewer axes than vol, applymask returns normally through
\* its indexing branch (it never recurses), and for every index c of the extra
\* trailing axes vol[x, c] is 0 where mask[x] == 0 and unchanged elsewhere.
C4_SharedMaskOnTrailingAxes ==
    (Done("applymask") /\ Len(arg.mask.shape) < Len(arg.vol.shape)) =>
        /\ ret.status = "ok"
        /\ loc.branch = "index"
        /\ mem.shape = arg.vol.shape
        /\ \A ix \in DOMAIN arg.vol.data :
              LET mx == Prefix(ix, Len(arg.mask.shape))
              IN  /\ IsZero(arg.mask.data[mx]) => mem.data[ix] = 0
                  /\ NonZero(arg.mask.data[mx]) => mem.data[ix] = arg.vol.data[ix]

\* C4 witness: a 3D mask with a zero and a nonzero voxel applied to a 4D
\* volume with at least two channels; two nonzero channels of one voxel were
\* zeroed.
C4_Witness ==
    /\ Done("applymask")
    /\ Len(arg.mask.shape) = 3
    /\ Len(arg.vol.shape) = 4
    /\ arg.vol.shape[4] >= 2
    /\ ret.status = "ok"
    /\ \E mx \in DOMAIN arg.mask.data : NonZero(arg.mask.data[mx])
    /\ \E ix \in DOMAIN arg.vol.data, jx \in DOMAIN arg.vol.data :
          /\ ix # jx
          /\ Prefix(ix, 3) = Prefix(jx, 3)
          /\ IsZero(arg.mask.data[Prefix(ix, 3)])
          /\ NonZero(arg.vol.data[ix]) /\ NonZero(arg.vol.data[jx])
          /\ mem.data[ix] = 0 /\ mem.data[jx] = 0

\* C5: with a mask of more axes than vol, applymask raises its dimensionality
\* Exception and no sample of vol is modified.
C5_TooManyMaskAxes ==
    (Done("applymask") /\ Len(arg.mask.shape) > Len(arg.vol.shape)) =>
        /\ ret.status = "Exception"
        /\ mem = arg.vol

\* C5 witness: a call with a mask of more axes than vol, some mask voxel 0 and
\* vol not all 0.
C5_Witness ==
    /\ Done("applymask")
    /\ Len(arg.mask.shape) > Len(arg.vol.shape)
    /\ ret.status # "ok"
    /\ \E mx \in DOMAIN arg.mask.data : IsZero(arg.mask.data[mx])
    /\ \E ix \in DOMAIN arg.vol.data : NonZero(arg.vol.data[ix])

\* a box with a bound outside the array or with mins[d] > maxs[d]
BadBox(vol, mins, maxs) ==
    \E d \in 1..3 :
        \/ mins[d] < 0
        \/ maxs[d] < 0
        \/ mins[d] >= vol.shape[d]
        \/ maxs[d] >= vol.shape[d]
        \/ mins[d] > maxs[d]

\* C6: crop fails whenever an index of the box lies outside the array or
\* mins[d] > maxs[d].
C6_CropFailsOnBadBox ==
    (Done("crop") /\ BadBox(arg.vol, arg.mins, arg.maxs)) => ret.status # "ok"

\* C7: on an image with exactly two distinct samples a < b, otsu returns a
\* threshold t with a < t < b.
C7_ThresholdStrictlyBetween ==
    Done("otsu") =>
        LET vals == {arg.image.data[ix] : ix \in DOMAIN arg.image.data}
        IN  Cardinality(vals) = 2 =>
                \A a \in vals, b \in vals :
                    a < b => (a * TScale < ret.threshold /\ ret.threshold < b * TScale)

\* C8: after binary_threshold(vol, thresh) every sample that was > thresh is
\* the maximum of the dtype, every sample that was <= thresh is 0, and vol
\* holds no other value.
C8_BinaryThreshold ==
    Done("binary_threshold") =>
        \A ix \in DOMAIN arg.vol.data :
            /\ GtThresh(arg.vol.data[ix], arg.thresh) =>
                  mem.data[ix] = maxvalue(arg.vol.dtype)
            /\ LeThresh(arg.vol.data[ix], arg.thresh) => mem.data[ix] = 0
            /\ mem.data[ix] \in {0, maxvalue(arg.vol.dtype)}

\* C9: bounding_box returns normally; with a nonzero voxel mins[d] and maxs[d]
\* are the smallest and the largest index along every axis d of a nonzero
\* voxel; without one both are all-zero coordinates.
C9_BoundingBox ==
    Done("bounding_box") =>
        /\ ret.status = "ok"
        /\ IF NonZeroAt(arg.vol) # {}
           THEN /\ Len(ret.mins) = Len(arg.vol.shape)
                /\ Len(ret.maxs) = Len(arg.vol.shape)
                /\ \A d \in 1..Len(arg.vol.shape) :
                      /\ ret.mins[d] = AxisMin(arg.vol, d)
                      /\ ret.maxs[d] = AxisMax(arg.vol, d)
                      /\ ret.mins[d] <= ret.maxs[d]
           ELSE /\ ret.mins = ret.maxs
                /\ Len(ret.mins) > 0
                /\ \A d \in 1..Len(ret.mins) : ret.mins[d] = 0

\* C9 witness: a mask with several nonzero voxels whose box is not a single
\* voxel and whose lower corner is not the first nonzero voxel in C order.
C9_Witness ==
    /\ Done("bounding_box")
    /\ Cardinality(NonZeroAt(arg.vol)) >= 2
    /\ ret.mins # ret.maxs
    /\ ret.mins # Pts(arg.vol)[1]
    /\ \E ix \in DOMAIN arg.vol.data : IsZero(arg.vol.data[ix])

\* C10: cropping a 3D mask with a nonzero voxel to its own bounding box gives
\* a mask whose bounding box is mins = 0, maxs = shape - 1 on every axis and
\* whose nonzero voxels are those of the original, shifted by mins.
C10_CropToOwnBox ==
    (/\ Done("crop")
     /\ NonZeroAt(arg.vol) # {}
     /\ arg.mins = bounding_box(arg.vol).mins
     /\ arg.maxs = bounding_box(arg.vol).maxs) =>
        /\ ret.status = "ok"
        /\ \A d \in 1..3 :
              /\ bounding_box(ret.vol).mins[d] = 0
              /\ bounding_box(ret.vol).maxs[d] = ret.vol.shape[d] - 1
        /\ \A ix \in DOMAIN arg.vol.data :
              NonZero(arg.vol.data[ix]) <=>
                  /\ Unshift(ix, arg.mins) \in DOMAIN ret.vol.data
                  /\ NonZero(ret.vol.data[Unshift(ix, arg.mins)])

\* C10 witness: a mask cropped to its own box, the box not starting at the
\* origin, smaller than the mask and holding a zero voxel.
C10_Witness ==
    /\ Done("crop")
    /\ NonZeroAt(arg.vol) # {}
    /\ arg.mins = bounding_box(arg.vol).mins
    /\ arg.maxs = bounding_box(arg.vol).maxs
    /\ arg.mins # Zeros(3)
    /\ ret.vol.shape # arg.vol.shape
    /\ \E ix \in DOMAIN ret.vol.data : IsZero(ret.vol.data[ix])

=============================================================================
